---- MODULE Spec2Model ----
(***************************************************************************)
(* A model of Automation/psi_utils.py: the recordtype() class factory, the *)
(* class its template generates, and PersistentObject.                     *)
(*                                                                         *)
(* Python strings are modelled as sequences of one-character strings, so   *)
(* that the character tests of the validation and the name mangling of     *)
(* the generated class are computed, not assumed.                          *)
(***************************************************************************)
EXTENDS Integers, Sequences, FiniteSets, TLC

(***************************************************************************)
(* Bounds of the model.                                                    *)
(***************************************************************************)
MaxFields == 2
MaxObjs == 2
MaxVal == 1
MaxLog == 2

Values == 0..MaxVal

(***************************************************************************)
(* Characters and names.                                                   *)
(***************************************************************************)
Digits == {"0", "1", "2", "3", "4", "5", "6", "7", "8", "9"}
Letters ==
    {"a", "b", "c", "d", "e", "f", "g", "h", "i", "j", "k", "l", "m",
     "n", "o", "p", "q", "r", "s", "t", "u", "v", "w", "x", "y", "z",
     "A", "B", "C", "D", "E", "F", "G", "H", "I", "J", "K", "L", "M",
     "N", "O", "P", "Q", "R", "S", "T", "U", "V", "W", "X", "Y", "Z"}
Whitespace == {" "}

isalnum(c) == c \in Letters \cup Digits
isdigit(c) == c \in Digits

\* keyword.kwlist of Python 2 (the code is Python 2: print, exec, basestring)
kwlist ==
    { <<"a","n","d">>, <<"a","s">>, <<"a","s","s","e","r","t">>,
      <<"b","r","e","a","k">>, <<"c","l","a","s","s">>,
      <<"c","o","n","t","i","n","u","e">>, <<"d","e","f">>, <<"d","e","l">>,
      <<"e","l","i","f">>, <<"e","l","s","e">>, <<"e","x","c","e","p","t">>,
      <<"e","x","e","c">>, <<"f","i","n","a","l","l","y">>, <<"f","o","r">>,
      <<"f","r","o","m">>, <<"g","l","o","b","a","l">>, <<"i","f">>,
      <<"i","m","p","o","r","t">>, <<"i","n">>, <<"i","s">>,
      <<"l","a","m","b","d","a">>, <<"n","o","t">>, <<"o","r">>,
      <<"p","a","s","s">>, <<"p","r","i","n","t">>, <<"r","a","i","s","e">>,
      <<"r","e","t","u","r","n">>, <<"t","r","y">>, <<"w","h","i","l","e">>,
      <<"w","i","t","h">>, <<"y","i","e","l","d">> }
iskeyword(name) == name \in kwlist

\* the names the model draws type and field names from
n_x == <<"x">>
n_y == <<"y">>
n_z == <<"z">>
n_us == <<"_", "x">>
n_dig == <<"1", "x">>
n_dash == <<"x", "-", "y">>
n_if == <<"i", "f">>
n_self == <<"s", "e", "l", "f">>
n_log == <<"l", "o", "g">>
n_Point == <<"P", "o", "i", "n", "t">>
n_Pair == <<"P", "a", "i", "r">>
n_None == <<"N", "o", "n", "e">>
n_get_log == <<"g", "e", "t", "_", "l", "o", "g">>
n_todict == <<"t", "o", "d", "i", "c", "t">>

FieldNamePool == {n_x, n_y, n_us, n_dig, n_dash, n_if, n_self, n_log}
GoodNames == {n_x, n_y, n_z}
TypeNamePool == {n_Point, n_if}

(***************************************************************************)
(* recordtype(typename, field_names, **default_kwds)                       *)
(***************************************************************************)
\* str.replace(',', ' ')
replace_commas(s) == [i \in 1..Len(s) |-> IF s[i] = "," THEN " " ELSE s[i]]

\* str.split(): the maximal runs of non-whitespace characters, in order
RECURSIVE split_from(_, _, _, _)
split_from(s, i, cur, out) ==
    IF i > Len(s)
    THEN (IF cur = <<>> THEN out ELSE Append(out, cur))
    ELSE IF s[i] \in Whitespace
         THEN split_from(s, i + 1, <<>>,
                         IF cur = <<>> THEN out ELSE Append(out, cur))
         ELSE split_from(s, i + 1, Append(cur, s[i]), out)
split(s) == split_from(s, 1, <<>>, <<>>)

\* field_names given as one string or as a sequence of names
parse_field_names(inp) ==
    IF inp.isstr THEN split(replace_commas(inp.str)) ELSE inp.list

\* the checks made on the type name and on every field name, in order
check_name(name) ==
    IF name = <<>> THEN "min_of_empty"
    ELSE IF ~(\A i \in 1..Len(name) : isalnum(name[i]) \/ name[i] = "_")
    THEN "not_alnum"
    ELSE IF iskeyword(name) THEN "keyword"
    ELSE IF isdigit(name[1]) THEN "starts_with_digit"
    ELSE "ok"

\* the checks made on field names only, in order
check_field(field_names, i) ==
    IF field_names[i][1] = "_" THEN "starts_with_underscore"
    ELSE IF \E j \in 1..(i - 1) : field_names[j] = field_names[i]
    THEN "duplicate"
    ELSE "ok"

\* the least element of a non-empty set of integers
Least(S) == CHOOSE m \in S : \A k \in S : m <= k

\* field_names[-k:] for k >= 1
last_fields(field_names, k) ==
    SubSeq(field_names,
           IF k >= Len(field_names) THEN 1 ELSE Len(field_names) - k + 1,
           Len(field_names))

Range(s) == {s[i] : i \in 1..Len(s)}

\* dict.get(f, default)
dict_get(d, f, default) == IF f \in DOMAIN d THEN d[f] ELSE default

\* func_defaults of __init__: <<>> stands for None (no defaults)
NoDefaults == <<>>

\* the defaults given to the first fields instead of the last
init_defaults_of_first(field_names, kwds) ==
    IF kwds.has_default
    THEN [exc |-> "None",
          val |-> [i \in 1..Len(field_names) |->
                     dict_get(kwds.field_defaults, field_names[i], kwds.default)]]
    ELSE IF DOMAIN kwds.field_defaults = {}
    THEN [exc |-> "None", val |-> NoDefaults]
    ELSE LET k == Cardinality(DOMAIN kwds.field_defaults)
             default_fields ==
                 SubSeq(field_names, 1,
                        IF k >= Len(field_names) THEN Len(field_names) ELSE k)
         IN  IF Range(default_fields) # DOMAIN kwds.field_defaults
             THEN [exc |-> "ValueError", val |-> NoDefaults]
             ELSE [exc |-> "None",
                   val |-> [i \in 1..Len(default_fields) |->
                              kwds.field_defaults[default_fields[i]]]]

\* the tuple func_defaults is set to: [exc |-> "None", val |-> tuple], or
\* [exc |-> "ValueError", ...] when the defaults are not those of the last
\* fields
init_defaults_of(field_names, kwds) ==
    IF kwds.has_default
    THEN [exc |-> "None",
          val |-> [i \in 1..Len(field_names) |->
                     dict_get(kwds.field_defaults, field_names[i], kwds.default)]]
    ELSE IF DOMAIN kwds.field_defaults = {}
    THEN [exc |-> "None", val |-> NoDefaults]
    ELSE LET default_fields ==
                 last_fields(field_names, Cardinality(DOMAIN kwds.field_defaults))
         IN  IF Range(default_fields) # DOMAIN kwds.field_defaults
             THEN [exc |-> "ValueError", val |-> NoDefaults]
             ELSE [exc |-> "None",
                   val |-> [i \in 1..Len(default_fields) |->
                              kwds.field_defaults[default_fields[i]]]]

\* the names the class template binds in the class body besides __slots__
\* and the special methods
template_methods == {n_log, n_get_log, n_todict}

\* exec of the filled-in template: compiling it fails when a field is a
\* second parameter called self or is None (which Python 2 does not let a
\* parameter or a class be called); creating the class fails when a slot
\* has the name of a method of the class body
exec_template(typename, field_names) ==
    IF typename = n_None \/ n_None \in Range(field_names)
       \/ n_self \in Range(field_names)
    THEN "SyntaxError"
    ELSE IF Range(field_names) \cap template_methods # {}
    THEN "ValueError"
    ELSE "None"

NoClass == [typename |-> <<>>, field_names |-> <<>>, init_defaults |-> <<>>]
Raise(exc, why) == [exc |-> exc, why |-> why, cls |-> NoClass]

recordtype(typename, field_names_in, kwds) ==
    LET field_names == parse_field_names(field_names_in)
        names == <<typename>> \o field_names
        bad1 == {i \in 1..Len(names) : check_name(names[i]) # "ok"}
        bad2 == {i \in 1..Len(field_names) :
                    check_field(field_names, i) # "ok"}
        defaults == init_defaults_of(field_names, kwds)
        ran == exec_template(typename, field_names)
    IN  IF field_names = <<>> THEN Raise("ValueError", "no_fields")
        ELSE IF bad1 # {}
        THEN Raise("ValueError", check_name(names[Least(bad1)]))
        ELSE IF bad2 # {}
        THEN Raise("ValueError", check_field(field_names, Least(bad2)))
        ELSE IF defaults.exc # "None"
        THEN Raise("ValueError", "missing_defaults")
        ELSE IF kwds.other # {}
        THEN Raise("ValueError", "invalid_keyword_arguments")
        ELSE IF ran # "None" THEN Raise(ran, "template")
        ELSE [exc |-> "None", why |-> "ok",
              cls |-> [typename |-> typename, field_names |-> field_names,
                       init_defaults |-> defaults.val]]

(***************************************************************************)
(* The calls of recordtype the model makes.                                *)
(***************************************************************************)
SeqsUpTo(S, n) == UNION {[1..k -> S] : k \in 0..n}

RECURSIVE Join(_, _)
Join(names, sep) ==
    IF names = <<>> THEN <<>>
    ELSE IF Len(names) = 1 THEN names[1]
    ELSE names[1] \o sep \o Join(Tail(names), sep)

AsList(l) == [isstr |-> FALSE, str |-> <<>>, list |-> l]
AsString(s) == [isstr |-> TRUE, str |-> s, list |-> <<>>]

NoKwds == [has_default |-> FALSE, default |-> 0,
           field_defaults |-> <<>>, other |-> {}]

FieldDefaultsPool == UNION {[K -> Values] : K \in SUBSET GoodNames}

KwdsPool ==
    {[has_default |-> FALSE, default |-> 0, field_defaults |-> fd, other |-> o] :
        fd \in FieldDefaultsPool, o \in SUBSET {"extra"}}
    \cup
    {[has_default |-> TRUE, default |-> d, field_defaults |-> fd, other |-> o] :
        d \in Values, fd \in FieldDefaultsPool, o \in SUBSET {"extra"}}

\* any names, in either form, without keyword options
PlainCalls ==
    {[typename |-> t, fields |-> f, kwds |-> NoKwds] :
        t \in TypeNamePool,
        f \in {AsList(l) : l \in SeqsUpTo(FieldNamePool, MaxFields)}
              \cup {AsString(Join(l, sep)) :
                      l \in SeqsUpTo(FieldNamePool, MaxFields),
                      sep \in {<<" ">>, <<",", " ">>}}}

\* well-formed names with every combination of the keyword options
DefaultCalls ==
    {[typename |-> n_Point, fields |-> AsList(l), kwds |-> k] :
        l \in SeqsUpTo(GoodNames, MaxFields), k \in KwdsPool}

(***************************************************************************)
(* The class the template generates.  A class is the record recordtype     *)
(* returns in cls; an instance holds its class and the values of the       *)
(* attributes it has storage for.  The class defines __slots__ and derives *)
(* from object, so an instance has storage for the slots and no __dict__.  *)
(***************************************************************************)
Ok(v) == [exc |-> "None", val |-> v]
Err(exc) == [exc |-> exc, val |-> <<>>]

\* the slots in the reverse of the declared order
slots_reversed(cls) ==
    [i \in 1..Len(cls.field_names) |->
       cls.field_names[Len(cls.field_names) + 1 - i]]

\* __slots__ = %(field_names)r
slots_of(cls) == cls.field_names

\* indexing that takes no index from the end
tuple_index_from_start(t, index) ==
    IF index < 0 \/ index >= Len(t) THEN Err("IndexError") ELSE Ok(t[index + 1])

\* tuple.__getitem__ with an integer: a negative index counts from the end
tuple_index(t, index) ==
    LET i == IF index < 0 THEN index + Len(t) ELSE index
    IN  IF i < 0 \/ i >= Len(t) THEN Err("IndexError") ELSE Ok(t[i + 1])

\* the name a private name __attr of the class body is compiled to: the
\* class name stripped of leading underscores, behind one underscore
RECURSIVE lstrip_underscores(_)
lstrip_underscores(name) ==
    IF name # <<>> /\ name[1] = "_" THEN lstrip_underscores(Tail(name))
    ELSE name
mangle(typename, attr) ==
    IF lstrip_underscores(typename) = <<>> THEN attr
    ELSE <<"_">> \o lstrip_underscores(typename) \o attr
n___log == <<"_", "_", "l", "o", "g">>

getattr(self, name) ==
    IF name \in DOMAIN self.attrs THEN Ok(self.attrs[name])
    ELSE Err("AttributeError")

\* storing an attribute: only a slot has storage
setattr(self, name, value) ==
    IF name \in Range(slots_of(self.cls))
    THEN Ok([self EXCEPT !.attrs =
               [a \in DOMAIN self.attrs \cup {name} |->
                  IF a = name THEN value ELSE self.attrs[a]]])
    ELSE Err("AttributeError")

\* object.__new__(cls): no attribute is set
new_object(cls) == [cls |-> cls, attrs |-> <<>>]

\* self.f1 = f1; self.f2 = f2; ... in declared order
RECURSIVE assign_fields(_, _, _)
assign_fields(self, values, i) ==
    IF i > Len(self.cls.field_names) THEN Ok(self)
    ELSE LET r == setattr(self, self.cls.field_names[i], values[i])
         IN  IF r.exc # "None" THEN r ELSE assign_fields(r.val, values, i + 1)

\* __init__(self, f1, f2, ...): the fields, then self.__log = []
init(self, values) ==
    LET r == assign_fields(self, values, 1)
    IN  IF r.exc # "None" THEN r
        ELSE setattr(r.val, mangle(self.cls.typename, n___log), <<>>)

\* the global names of the code the template is executed into: the
\* namespace starts empty and the class statement binds the type name
template_globals(cls) == {cls.typename}
n_time == <<"t", "i", "m", "e">>

\* log(self, message) at clock reading now: self.__log is looked up, then
\* time, then the pair is appended to the list in place.  In a class that
\* is itself called time, time.time is an attribute of that class: a slot
\* descriptor, which cannot be called, or nothing
log(self, message, now) ==
    LET l == getattr(self, mangle(self.cls.typename, n___log))
    IN  IF l.exc # "None" THEN l
        ELSE IF n_time \notin template_globals(self.cls) THEN Err("NameError")
        ELSE IF self.cls.typename = n_time
        THEN (IF n_time \in Range(slots_of(self.cls)) THEN Err("TypeError")
              ELSE Err("AttributeError"))
        ELSE setattr(self, mangle(self.cls.typename, n___log),
                     Append(l.val, <<now, message>>))

get_log(self) == getattr(self, mangle(self.cls.typename, n___log))

len(self) == Len(self.cls.field_names)

getitem(self, index) ==
    LET s == tuple_index(slots_of(self.cls), index)
    IN  IF s.exc # "None" THEN s ELSE getattr(self, s.val)

setitem(self, index, value) ==
    LET s == tuple_index(slots_of(self.cls), index)
    IN  IF s.exc # "None" THEN s ELSE setattr(self, s.val, value)

\* the values of the fields in declared order: __iter__, the tuple of
\* __repr__ and __getstate__
field_tuple(self) ==
    LET unset == {i \in 1..len(self) :
                     getattr(self, self.cls.field_names[i]).exc # "None"}
    IN  IF unset # {} THEN Err("AttributeError")
        ELSE Ok([i \in 1..len(self) |-> self.attrs[self.cls.field_names[i]]])

todict(self) ==
    IF field_tuple(self).exc # "None" THEN field_tuple(self)
    ELSE Ok([f \in Range(self.cls.field_names) |-> self.attrs[f]])

\* isinstance(other, self.__class__) and self.f1==other.f1 and ...
eq(self, other) ==
    /\ other.cls = self.cls
    /\ \A i \in 1..len(self) :
          getattr(self, self.cls.field_names[i]).val
            = getattr(other, self.cls.field_names[i]).val

getstate(self) == field_tuple(self)

\* (self.f1, self.f2, ...) = state: the lengths must agree, and nothing is
\* assigned when they do not
setstate(self, state) ==
    IF Len(state) # len(self) THEN Err("ValueError")
    ELSE assign_fields(self, state, 1)

\* binding the arguments of cls(*args, **kwargs) to the parameters of
\* __init__, whose func_defaults are the defaults of its last parameters
bind_arguments(cls, args, kwargs) ==
    LET names == cls.field_names
        n == Len(names)
        first_default == n - Len(cls.init_defaults) + 1
        bound(i) == i <= Len(args) \/ names[i] \in DOMAIN kwargs
                       \/ i >= first_default
    IN  IF Len(args) > n THEN Err("TypeError")
        ELSE IF \E k \in DOMAIN kwargs : k \notin Range(names) THEN Err("TypeError")
        ELSE IF \E i \in 1..Len(args) : names[i] \in DOMAIN kwargs
        THEN Err("TypeError")
        ELSE IF \E i \in 1..n : ~bound(i) THEN Err("TypeError")
        ELSE Ok([i \in 1..n |->
                   IF i <= Len(args) THEN args[i]
                   ELSE IF names[i] \in DOMAIN kwargs THEN kwargs[names[i]]
                   ELSE cls.init_defaults[i - first_default + 1]])

\* cls(*args, **kwargs)
construct(cls, args, kwargs) ==
    LET b == bind_arguments(cls, args, kwargs)
    IN  IF b.exc # "None" THEN b ELSE init(new_object(cls), b.val)

\* what unpickling an instance does: object.__new__, then __setstate__
reconstruct(cls, state) == setstate(new_object(cls), state)

(***************************************************************************)
(* The classes of the instances the model makes.                           *)
(***************************************************************************)
Point == recordtype(n_Point, AsString(<<"x", " ", "y">>), NoKwds).cls
PointD ==
    recordtype(n_Point, AsList(<<n_x, n_y>>),
               [NoKwds EXCEPT !.field_defaults = [f \in {n_y} |-> 0]]).cls
Pair ==
    recordtype(n_Pair, AsList(<<n_x>>),
               [NoKwds EXCEPT !.has_default = TRUE, !.default = 1]).cls
Classes == {Point, PointD, Pair}
\* the classes of the instances on the heap
HeapClasses == {Point, Pair}

(***************************************************************************)
(* PersistentObject.  A file holds the pickle of an object, or bytes that  *)
(* are no pickle; an object is its attributes, of which the model keeps    *)
(* version ("" when the object has no such attribute).                     *)
(***************************************************************************)
\* the names bound in the module's global namespace once it is imported:
\* its imports, __all__ and its two definitions
module_globals ==
    {"sys", "dedent", "iskeyword", "__all__", "recordtype", "PersistentObject"}

NoVersion == ""
Versions == {"0.0", "0.1"}

Missing == [kind |-> "missing", version |-> NoVersion]
Empty == [kind |-> "bytes", version |-> NoVersion]
Pickle(version) == [kind |-> "pickle", version |-> version]
Contents == {Missing, Empty} \cup {Pickle(v) : v \in Versions \cup {NoVersion}}

Filenames == {"a", "b", "ro"}
Unwritable == {"ro"}

\* PersistentObject.__init__ of a class that declares class_version
persistent_init(class_version) == [version |-> class_version]

\* save(self, filename): the file is opened for writing, which creates or
\* empties it, before the argument of write is evaluated
save(files, self, filename) ==
    IF filename \in Unwritable THEN [exc |-> "IOError", files |-> files]
    ELSE LET opened == [files EXCEPT ![filename] = Empty]
         IN  IF "cPickle" \notin module_globals
             THEN [exc |-> "NameError", files |-> opened]
             ELSE [exc |-> "None",
                   files |-> [files EXCEPT ![filename] = Pickle(self.version)]]

hasattr_version(obj) == obj.version # NoVersion

NoObject == [version |-> NoVersion]

\* load(filename) for a class that declares class_version; upgrades counts
\* the calls of upgrade() the load makes, ret is what the caller receives
load(files, filename, class_version) ==
    IF files[filename].kind = "missing"
    THEN [exc |-> "IOError", upgrades |-> 0, returned |-> FALSE, ret |-> NoObject]
    ELSE IF "cPickle" \notin module_globals
    THEN [exc |-> "NameError", upgrades |-> 0, returned |-> FALSE, ret |-> NoObject]
    ELSE IF files[filename].kind # "pickle"
    THEN [exc |-> "EOFError", upgrades |-> 0, returned |-> FALSE, ret |-> NoObject]
    ELSE LET loaded == [version |-> files[filename].version]
             obj == IF ~hasattr_version(loaded)
                    THEN [loaded EXCEPT !.version = "0.0"] ELSE loaded
             upgrades == IF obj.version # class_version THEN 1 ELSE 0
         IN  IF "returnobj" \notin module_globals
             THEN [exc |-> "NameError", upgrades |-> upgrades,
                   returned |-> FALSE, ret |-> NoObject]
             \* the statement is an expression: the function ends and
             \* returns None
             ELSE [exc |-> "None", upgrades |-> upgrades,
                   returned |-> FALSE, ret |-> NoObject]

VARIABLES defined, made, heap, logged, last, files, class_version, pobjs, plast

vars == <<defined, made, heap, logged, last, files, class_version, pobjs, plast>>

NoCall == [called |-> FALSE]
NoOp == [op |-> "none", exc |-> "None", obj |-> 0, src |-> 0]
NoFiles == [f \in Filenames |-> Missing]
NoPersistOp == [op |-> "none", file |-> "", exc |-> "None", upgrades |-> 0,
                returned |-> FALSE, ret |-> NoObject]

recordVars == <<heap, logged, last>>
persistVars == <<files, class_version, pobjs, plast>>

IdleRecord == heap = <<>> /\ logged = <<>> /\ last = NoOp
IdlePersist ==
    files = NoFiles /\ class_version = "0.0" /\ pobjs = <<>> /\ plast = NoPersistOp

(***************************************************************************)
(* Calls of recordtype.                                                    *)
(***************************************************************************)
Pending(c) == [called |-> FALSE, typename |-> c.typename, fields |-> c.fields,
               kwds |-> c.kwds, result |-> Raise("None", "pending")]

InitDefine ==
    /\ \E c \in PlainCalls \cup DefaultCalls : defined = Pending(c)
    /\ made = NoCall
    /\ IdleRecord
    /\ IdlePersist

Define ==
    /\ ~defined.called
    /\ defined' = [defined EXCEPT
                     !.called = TRUE,
                     !.result = recordtype(defined.typename, defined.fields,
                                           defined.kwds)]
    /\ UNCHANGED <<made, recordVars, persistVars>>

NextDefine == Define

SpecDefine == InitDefine /\ [][NextDefine]_vars

(***************************************************************************)
(* Calls of the constructor of a generated class.                          *)
(***************************************************************************)
KwargNames == {n_x, n_y, n_z}
KwargsPool == UNION {[K -> Values] : K \in SUBSET KwargNames}
ConstructCalls ==
    {[cls |-> c, args |-> a, kwargs |-> k] :
        c \in Classes, a \in SeqsUpTo(Values, MaxFields + 1), k \in KwargsPool}

InitConstruct ==
    /\ defined = NoCall
    /\ \E c \in ConstructCalls :
          made = [called |-> FALSE, cls |-> c.cls, args |-> c.args,
                  kwargs |-> c.kwargs, result |-> Err("None")]
    /\ IdleRecord
    /\ IdlePersist

Construct ==
    /\ ~made.called
    /\ made' = [made EXCEPT
                  !.called = TRUE,
                  !.result = construct(made.cls, made.args, made.kwargs)]
    /\ UNCHANGED <<defined, recordVars, persistVars>>

NextConstruct == Construct

SpecConstruct == InitConstruct /\ [][NextConstruct]_vars

(***************************************************************************)
(* Instances and the operations on them.  heap holds the live instances in *)
(* the order they came to exist; logged is the messages log() was called   *)
(* with on each, in call order.                                            *)
(***************************************************************************)
Live == 1..Len(heap)
Indexes == (-(MaxFields + 1))..(MaxFields + 1)
Messages == {"a", "b"}

InitRecord ==
    /\ defined = NoCall
    /\ made = NoCall
    /\ IdleRecord
    /\ IdlePersist

\* an operation that may hand back a new instance
Produce(op, r, src) ==
    /\ heap' = IF r.exc = "None" THEN Append(heap, r.val) ELSE heap
    /\ logged' = IF r.exc = "None" THEN Append(logged, <<>>) ELSE logged
    /\ last' = [op |-> op, exc |-> r.exc,
                obj |-> IF r.exc = "None" THEN Len(heap) + 1 ELSE 0, src |-> src]

\* an operation that may change instance i in place
Mutate(op, r, i) ==
    /\ heap' = IF r.exc = "None" THEN [heap EXCEPT ![i] = r.val] ELSE heap
    /\ last' = [op |-> op, exc |-> r.exc, obj |-> i, src |-> 0]

\* an instance is unpickled from a state tuple
Unpickle ==
    \E c \in HeapClasses, state \in SeqsUpTo(Values, MaxFields + 1) :
        /\ Len(heap) < MaxObjs
        /\ Produce("unpickle", reconstruct(c, state), 0)
        /\ UNCHANGED <<defined, made, persistVars>>

\* cls(*args) with one argument for every field
New ==
    \E c \in HeapClasses, args \in SeqsUpTo(Values, MaxFields) :
        /\ Len(heap) < MaxObjs
        /\ Len(args) = Len(c.field_names)
        /\ Produce("construct", construct(c, args, <<>>), 0)
        /\ UNCHANGED <<defined, made, persistVars>>

\* instance i is pickled and unpickled: __getstate__, then __setstate__ on
\* a new object of its class
Copy ==
    \E i \in Live :
        /\ Len(heap) < MaxObjs
        /\ Produce("copy",
                   IF getstate(heap[i]).exc # "None" THEN getstate(heap[i])
                   ELSE reconstruct(heap[i].cls, getstate(heap[i]).val), i)
        /\ UNCHANGED <<defined, made, persistVars>>

\* cls(**x.todict())
FromMapping ==
    \E i \in Live :
        /\ Len(heap) < MaxObjs
        /\ Produce("from_mapping",
                   IF todict(heap[i]).exc # "None" THEN todict(heap[i])
                   ELSE construct(heap[i].cls, <<>>, todict(heap[i]).val), i)
        /\ UNCHANGED <<defined, made, persistVars>>

\* x.name = value
SetByName ==
    \E i \in Live, name \in KwargNames, v \in Values :
        /\ Mutate("setattr", setattr(heap[i], name, v), i)
        /\ UNCHANGED <<logged, defined, made, persistVars>>

\* x[index] = value
SetByIndex ==
    \E i \in Live, index \in Indexes, v \in Values :
        /\ Mutate("setitem", setitem(heap[i], index, v), i)
        /\ UNCHANGED <<logged, defined, made, persistVars>>

\* x[index]
GetByIndex ==
    \E i \in Live, index \in Indexes :
        /\ last' = [op |-> "getitem", exc |-> getitem(heap[i], index).exc,
                    obj |-> i, src |-> 0]
        /\ UNCHANGED <<heap, logged, defined, made, persistVars>>

NextRecord ==
    Unpickle \/ New \/ Copy \/ FromMapping \/ SetByName \/ SetByIndex
        \/ GetByIndex

SpecRecord == InitRecord /\ [][NextRecord]_vars

\* x.log(message)
Log ==
    \E i \in Live, m \in Messages, now \in Values :
        /\ Len(logged[i]) < MaxLog
        /\ Mutate("log", log(heap[i], m, now), i)
        /\ logged' = [logged EXCEPT ![i] = Append(@, m)]
        /\ UNCHANGED <<defined, made, persistVars>>

\* x.get_log()
GetLog ==
    \E i \in Live :
        /\ last' = [op |-> "get_log", exc |-> get_log(heap[i]).exc,
                    obj |-> i, src |-> 0]
        /\ UNCHANGED <<heap, logged, defined, made, persistVars>>

NextLog == Unpickle \/ New \/ Copy \/ SetByName \/ Log \/ GetLog

SpecLog == InitRecord /\ [][NextLog]_vars

(***************************************************************************)
(* Saving and loading persistent objects.  The files a run finds were left *)
(* by earlier runs or by other programs: each is absent, holds bytes that  *)
(* are no pickle, or holds the pickle of an object, with or without a      *)
(* version attribute.                                                      *)
(***************************************************************************)
InitPersist ==
    /\ defined = NoCall
    /\ made = NoCall
    /\ IdleRecord
    /\ files \in [Filenames -> Contents]
    /\ \A f \in Unwritable : files[f] = Missing
    /\ class_version \in Versions
    /\ pobjs = <<>>
    /\ plast = NoPersistOp

\* PersistentObject()
NewPersistent ==
    /\ Len(pobjs) < MaxObjs
    /\ pobjs' = Append(pobjs, persistent_init(class_version))
    /\ plast' = [NoPersistOp EXCEPT !.op = "init"]
    /\ UNCHANGED <<files, class_version, defined, made, recordVars>>

\* obj.save(filename)
Save ==
    \E i \in 1..Len(pobjs), f \in Filenames :
        /\ files' = save(files, pobjs[i], f).files
        /\ plast' = [NoPersistOp EXCEPT !.op = "save", !.file = f,
                                        !.exc = save(files, pobjs[i], f).exc]
        /\ UNCHANGED <<pobjs, class_version, defined, made, recordVars>>

\* PersistentObject.load(filename)
Load ==
    \E f \in Filenames :
        LET r == load(files, f, class_version)
        IN  /\ plast' = [op |-> "load", file |-> f, exc |-> r.exc,
                         upgrades |-> r.upgrades, returned |-> r.returned,
                         ret |-> r.ret]
            /\ pobjs' = IF r.returned /\ Len(pobjs) < MaxObjs
                        THEN Append(pobjs, r.ret) ELSE pobjs
            /\ UNCHANGED <<files, class_version, defined, made, recordVars>>

NextPersist == NewPersistent \/ Save \/ Load

SpecPersist == InitPersist /\ [][NextPersist]_vars

(***************************************************************************)
(* Properties.                                                             *)
(***************************************************************************)
\* the last call of load read a file that holds the pickle of an object
LoadedPickle == plast.op = "load" /\ files[plast.file].kind = "pickle"

\* the version load compares: the stored one, or "0.0" when none is stored
StoredVersion ==
    IF files[plast.file].version = NoVersion THEN "0.0"
    ELSE files[plast.file].version

\* C1: a load of a stored object calls upgrade() no time when the stored
\* version (or "0.0" when there is none) is the class_version, and exactly
\* once when it differs
C1_UpgradeOnceIffStale ==
    LoadedPickle =>
        plast.upgrades = (IF StoredVersion = class_version THEN 0 ELSE 1)

\* C2: a load of a file that holds the pickle of an object ends without an
\* error and hands the caller that object
C2_LoadReturnsObject ==
    LoadedPickle =>
        /\ plast.exc = "None"
        /\ plast.returned
        /\ plast.ret = [version |-> StoredVersion]

\* C3: pickling an instance and unpickling the result gives an instance with
\* the same field values, in order, whose get_log() is the empty sequence
C3_RestoreReproducesFieldsEmptyLog ==
    last.op = "copy" =>
        /\ last.exc = "None"
        /\ field_tuple(heap[last.obj]) = field_tuple(heap[last.src])
        /\ get_log(heap[last.obj]) = Ok(<<>>)

Messages_of(entries) == [k \in 1..Len(entries) |-> entries[k][2]]

\* C4: a constructor call that binds every field gives an instance whose log
\* is empty, and get_log() of an instance returns one entry for each call of
\* log on it, the messages in call order and the timestamps non-decreasing
C4_LogIsTheCallsInOrder ==
    /\ last.op = "construct" =>
          last.exc = "None" /\ get_log(heap[last.obj]) = Ok(<<>>)
    /\ \A i \in Live :
          logged[i] # <<>> =>
             /\ get_log(heap[i]).exc = "None"
             /\ Messages_of(get_log(heap[i]).val) = logged[i]
             /\ \A k \in 1..(Len(logged[i]) - 1) :
                   get_log(heap[i]).val[k][1] <= get_log(heap[i]).val[k + 1][1]

\* the value the three binding passes give field i: the positional
\* argument, else the keyword argument, else the default of the schema
C5_Binding(cls, args, kwargs, i) ==
    LET n == Len(cls.field_names)
        d == Len(cls.init_defaults)
    IN  IF i <= Len(args) THEN Ok(args[i])
        ELSE IF cls.field_names[i] \in DOMAIN kwargs
        THEN Ok(kwargs[cls.field_names[i]])
        ELSE IF i > n - d THEN Ok(cls.init_defaults[i - (n - d)])
        ELSE Err("unbound")

\* C5: a constructor call whose arguments name fields only, positionally
\* no more than there are fields, yields an instance holding the values the
\* three binding passes give, and fails when a keyword names a field bound
\* positionally or a field stays unbound
C5_ConstructorBindsFields ==
    (/\ made.called
     /\ Len(made.args) <= Len(made.cls.field_names)
     /\ DOMAIN made.kwargs \subseteq Range(made.cls.field_names)) =>
        LET n == Len(made.cls.field_names)
            collides == \E i \in 1..Len(made.args) :
                           made.cls.field_names[i] \in DOMAIN made.kwargs
            unbound == \E i \in 1..n :
                          C5_Binding(made.cls, made.args, made.kwargs, i).exc
                             # "None"
        IN  IF collides \/ unbound THEN made.result.exc # "None"
            ELSE /\ made.result.exc = "None"
                 /\ field_tuple(made.result.val) =
                       Ok([i \in 1..n |->
                             C5_Binding(made.cls, made.args, made.kwargs, i).val])

\* the outcome of a call of recordtype, with its field names and its
\* field_defaults
DefinedFields == parse_field_names(defined.fields)
DefaultKeys == DOMAIN defined.kwds.field_defaults

\* field j of the class has no default: a call that gives every other field
\* by keyword fails
Mandatory(cls, j) ==
    bind_arguments(cls, <<>>,
                   [f \in Range(cls.field_names) \ {cls.field_names[j]} |-> 0]).exc
        # "None"

\* the default of field j of the class: what a call that gives no argument
\* for it binds it to
DefaultOf(cls, j) ==
    bind_arguments(cls, <<>>,
                   [f \in {cls.field_names[i] : i \in 1..(j - 1)} |-> 0]).val[j]

\* without a blanket default, a call that succeeds has as keys of
\* field_defaults exactly the last k fields, which get the mapped defaults
\* while the fields before them stay mandatory
SuffixDefaults ==
    (~defined.kwds.has_default /\ defined.result.exc = "None") =>
        LET cls == defined.result.cls
            n == Len(cls.field_names)
            k == Cardinality(DefaultKeys)
        IN  /\ k <= n
            /\ DefaultKeys = {cls.field_names[j] : j \in (n - k + 1)..n}
            /\ \A j \in 1..(n - k) : Mandatory(cls, j)
            /\ \A j \in (n - k + 1)..n :
                  /\ ~Mandatory(cls, j)
                  /\ DefaultOf(cls, j) = defined.kwds.field_defaults[cls.field_names[j]]

\* C6 as stated: a key of field_defaults that is no field is rejected with
\* or without a blanket default, and without one the keys are the last k
\* fields
C6_UnknownKeyAlwaysRejected ==
    defined.called =>
        /\ ~(DefaultKeys \subseteq Range(DefinedFields)) =>
              defined.result.exc # "None"
        /\ SuffixDefaults

\* C6, amended: a key of field_defaults that is no field is rejected when no
\* blanket default is given; with a blanket default the mapping is never the
\* reason of a rejection, every field gets its mapped default or else the
\* blanket one, and keys that are no fields are ignored; without a blanket
\* default the keys are exactly the last k fields, which get the mapped
\* defaults while the earlier fields stay mandatory
C6_UnknownKeyRejectedWithoutBlanket ==
    defined.called =>
        /\ (~defined.kwds.has_default
            /\ ~(DefaultKeys \subseteq Range(DefinedFields))) =>
              defined.result.exc = "ValueError"
        /\ defined.kwds.has_default =>
              /\ defined.result.why # "missing_defaults"
              /\ defined.result.exc = "None" =>
                    \A j \in 1..Len(defined.result.cls.field_names) :
                       /\ ~Mandatory(defined.result.cls, j)
                       /\ DefaultOf(defined.result.cls, j) =
                             dict_get(defined.kwds.field_defaults,
                                      defined.result.cls.field_names[j],
                                      defined.kwds.default)
        /\ SuffixDefaults

C6_Witness ==
    /\ defined.called
    /\ ~defined.kwds.has_default
    /\ defined.result.exc = "None"
    /\ Cardinality(DefaultKeys) = 1
    /\ Len(defined.result.cls.field_names) = 2

\* the rules of a field list: not empty, each name of alphanumerics and
\* underscores only, no reserved word, no leading digit, no leading
\* underscore, no name twice
C7_RulesPass(names) ==
    /\ names # <<>>
    /\ \A i \in 1..Len(names) :
          /\ names[i] # <<>>
          /\ \A j \in 1..Len(names[i]) :
                names[i][j] \in Letters \cup Digits \cup {"_"}
          /\ names[i] \notin kwlist
          /\ names[i][1] \notin Digits
          /\ names[i][1] # "_"
          /\ \A j \in 1..(i - 1) : names[j] # names[i]

\* C7: with a well-formed type name and no defaults, the call succeeds if
\* and only if the field list passes the rules, and a call that fails
\* raises while the class is being defined
C7_DefineSucceedsIffRulesPass ==
    (/\ defined.called
     /\ defined.kwds = NoKwds
     /\ check_name(defined.typename) = "ok") =>
        (defined.result.exc = "None" <=> C7_RulesPass(DefinedFields))

\* C8 as stated: every index outside 0..n-1, the negative ones included, is
\* an error for x[index] and for x[index] = value
C8_NegativeIndexIsError ==
    \A i \in Live : \A index \in Indexes :
        (index < 0 \/ index >= len(heap[i])) =>
            /\ getitem(heap[i], index).exc # "None"
            /\ \A v \in Values : setitem(heap[i], index, v).exc # "None"

\* C8, amended: x[index] and x[index] = value raise IndexError exactly for
\* the indexes outside -n..n-1, an index in -n..-1 is that of field
\* index + n, and a set-by-index that fails changes no field value
C8_IndexErrorOutsideWrappedRange ==
    /\ [](\A i \in Live : \A index \in Indexes :
            LET n == len(heap[i])
            IN  /\ getitem(heap[i], index).exc = "IndexError"
                      <=> (index < -n \/ index >= n)
                /\ (index >= -n /\ index < n) => getitem(heap[i], index).exc = "None"
                /\ (index >= -n /\ index < 0) =>
                      getitem(heap[i], index) = getitem(heap[i], index + n)
                /\ \A v \in Values :
                      /\ setitem(heap[i], index, v).exc = "IndexError"
                            <=> (index < -n \/ index >= n)
                      /\ (index >= -n /\ index < 0) =>
                            setitem(heap[i], index, v)
                               = setitem(heap[i], index + n, v))
    /\ [][(last'.op = "setitem" /\ last'.exc # "None") => heap' = heap]_vars

C8_Witness ==
    /\ last.op = "setitem"
    /\ last.exc = "IndexError"
    /\ len(heap[last.obj]) = 2

C10_FromMappingEqual ==
    last.op = "from_mapping" =>
        /\ last.exc = "None"
        /\ eq(heap[last.obj], heap[last.src])
        /\ eq(heap[last.src], heap[last.obj])

====
